---- MODULE Spec2Model ----
(***************************************************************************)
(* A model of filerescuematcher.py: the ed-header parser, the line         *)
(* similarity ratio, the mimetype cache, the tree matcher generator and    *)
(* the selection / copy loop of rescue_matcher.                            *)
(*                                                                         *)
(* Text is a sequence of one-character strings.  A ratio is the exact      *)
(* fraction [num, den] of the float 2.0 * common / (left + right); ratios  *)
(* are compared by cross multiplication.  A file is [bin, lines]: bin says *)
(* whether diff treats it as binary, lines are its lines.  A path is       *)
(* [abs, parts].  Python's None is the empty sequence where a value is     *)
(* optional.                                                               *)
(***************************************************************************)
EXTENDS Integers, Sequences, FiniteSets, TLC

VARIABLES
    \* ---- one run of main() ----
    cfg,          \* the parsed command line and the diff binary's capability
    files,        \* [left, right]: the files build_file_list finds, in order
    pc,           \* "start", "inner", "done", "exit"; "score" and "cache" when
                  \* the scorer or the cache is driven on its own
    exit_cause,   \* "none", "die" (exit(1) from die()), "OSError", "ZeroDivisionError"
    li,           \* index of the left file the generator is working on
    ri,           \* index of the next right file of the inner loop
    matches,      \* the generator's matches dict, in insertion order
    yielded,      \* what the generator has yielded: <<[left, matches]>>
    stdout,       \* printed blocks: <<[left, lines]>>
    stderr,       \* diagnostics: <<[msg, ...]>>
    copies,       \* calls of copy_full_path: <<[left, src, dst, ok]>>
    mime_cache,   \* MimetypeCache: <<[key, val]>> in insertion order
    sniff_calls,  \* how often `file -ib` ran, per path
    \* ---- the scorer on one pair of files ----
    fa, fb,       \* the two files
    proc_ab,      \* what the diff process answered for (a, b), or None
    proc_ba,      \* what the diff process answered for (b, a), or None
    res_ab,       \* result of common_lines_ratio(a, b), or NotRun
    res_ba,       \* result of common_lines_ratio(b, a), or NotRun
    \* ---- the mimetype cache on its own ----
    sniff,        \* what `file -ib` prints (before ";") for each path
    first_val,    \* the value each path's first sniffing call returned
    returned      \* the requests made so far: <<[path, val]>>

vars == <<cfg, files, pc, exit_cause, li, ri, matches, yielded,
          stdout, stderr, copies, mime_cache, sniff_calls, fa, fb, proc_ab,
          proc_ba, res_ab, res_ba, sniff, first_val, returned>>

runVars == <<cfg, files, pc, exit_cause, li, ri, matches,
             yielded, stdout, stderr, copies>>
scoreVars == <<fa, fb, proc_ab, proc_ba, res_ab, res_ba>>
cacheVars == <<sniff, first_val, returned>>

(***************************************************************************)
(* Bounds of the model.                                                    *)
(***************************************************************************)
MaxFileLines == 3        \* lines per file, scorer specification
MaxTreeFileLines == 2    \* lines per file, run specification
MaxRequests == 4         \* mimetype requests, cache specification

LineKinds == {"x", "y"}  \* distinct line contents, scorer specification
TreeLineKinds == {"x"}   \* distinct line contents, run specification

(***************************************************************************)
(* Sequence helpers.                                                       *)
(***************************************************************************)
SeqsUpTo(S, n) == UNION {[1..k -> S] : k \in 0..n}

Range(s) == {s[i] : i \in 1..Len(s)}

RECURSIVE Concat(_)
Concat(ss) == IF ss = <<>> THEN <<>> ELSE Head(ss) \o Concat(Tail(ss))

Reverse(s) == [i \in 1..Len(s) |-> s[Len(s) + 1 - i]]

RECURSIVE SumSeq(_)
SumSeq(s) == IF s = <<>> THEN 0 ELSE Head(s) + SumSeq(Tail(s))

(***************************************************************************)
(* Text: decimal numbers, str.strip, str.split.                            *)
(***************************************************************************)
Digits == <<"0", "1", "2", "3", "4", "5", "6", "7", "8", "9">>

IsDigit(c) == c \in Range(Digits)

DigitVal(c) == (CHOOSE i \in 1..Len(Digits) : Digits[i] = c) - 1

\* printf("%d") of the diff program
RECURSIVE IntToStr(_)
IntToStr(n) ==
    IF n < Len(Digits) THEN <<Digits[n + 1]>>
    ELSE IntToStr(n \div Len(Digits)) \o <<Digits[(n % Len(Digits)) + 1]>>

\* int() on a string of decimal digits
RECURSIVE StrToInt(_)
StrToInt(s) ==
    IF s = <<>> THEN 0
    ELSE StrToInt(SubSeq(s, 1, Len(s) - 1)) * Len(Digits) + DigitVal(s[Len(s)])

Whitespace == {" ", "\n", "\t", "\r"}

RECURSIVE LStrip(_)
LStrip(s) ==
    IF s # <<>> /\ Head(s) \in Whitespace THEN LStrip(Tail(s)) ELSE s

Strip(s) == Reverse(LStrip(Reverse(LStrip(s))))

\* s.split(sep): always at least one piece; "".split("\n") is [""]
RECURSIVE Split(_, _)
Split(s, sep) ==
    IF \E i \in 1..Len(s) : s[i] = sep
    THEN LET i == CHOOSE k \in 1..Len(s) :
                      s[k] = sep /\ \A m \in 1..(k - 1) : s[m] # sep
         IN  <<SubSeq(s, 1, i - 1)>> \o Split(SubSeq(s, i + 1, Len(s)), sep)
    ELSE <<s>>

\* the length of the longest prefix of s made of digits: what \d+ consumes
RECURSIVE DigitPrefix(_)
DigitPrefix(s) ==
    IF s # <<>> /\ IsDigit(Head(s)) THEN 1 + DigitPrefix(Tail(s)) ELSE 0

(***************************************************************************)
(* The ed header parser.                                                   *)
(***************************************************************************)
None == <<>>

\* the character class [a|c|d] of DIFF_ED_LINE_RE: it holds "|" too
TypeChars == {"a", "|", "c", "d"}

\* DIFF_ED_LINE_RE.match(s): None, or <<groupdict>> with start, end, type.
\* A group that did not take part is None.
DIFF_ED_LINE_RE(s) ==
    LET n1   == DigitPrefix(s)
        rest == SubSeq(s, n1 + 1, Len(s))
    IN  IF n1 = 0 THEN None
        ELSE IF rest # <<>> /\ Head(rest) = ","
        THEN LET r2   == Tail(rest)
                 n2   == DigitPrefix(r2)
                 tail == SubSeq(r2, n2 + 1, Len(r2))
             IN  IF n2 > 0 /\ Len(tail) = 1 /\ tail[1] \in TypeChars
                 THEN <<[start |-> SubSeq(s, 1, n1),
                         end   |-> <<SubSeq(r2, 1, n2)>>,
                         type  |-> tail[1]]>>
                 ELSE None
        ELSE IF Len(rest) = 1 /\ rest[1] \in TypeChars
        THEN <<[start |-> SubSeq(s, 1, n1), end |-> None, type |-> rest[1]]>>
        ELSE None

\* EdDiffLine(type, start, end); end is None or <<int>>
EdDiffLine(type, start, end) == [type |-> type, start |-> start, end |-> end]

\* parse_diff_ed_line_number_header(line): [die |-> TRUE] when die() is
\* called, else the EdDiffLine
parse_diff_ed_line_number_header(line) ==
    LET match == DIFF_ED_LINE_RE(Strip(line))
    IN  IF match = None THEN [die |-> TRUE]
        ELSE LET match_dict == match[1]
             IN  IF match_dict.type = "a" /\ match_dict.end # None
                 THEN [die |-> TRUE]
                 ELSE [die |-> FALSE,
                       ed  |-> EdDiffLine(
                                 match_dict.type,
                                 StrToInt(match_dict.start),
                                 IF match_dict.end # None /\ match_dict.end[1] # <<>>
                                 THEN <<StrToInt(match_dict.end[1])>>
                                 ELSE None)]

\* size without the "+ 1"
size_off_by_one(ed) == IF ed.end = None THEN 1 ELSE ed.end[1] - ed.start

\* EdDiffLine.size
size(ed) == IF ed.end = None THEN 1 ELSE ed.end[1] - ed.start + 1

(***************************************************************************)
(* The diff program, `diff --ed-line-numbers-only left right`: the ed      *)
(* script's headers without the lines.  Which lines diff pairs up is its   *)
(* own choice: the program passes no --minimal, and GNU diff promises a    *)
(* minimal script only with it, so every pairing of equal lines that keeps *)
(* their order is an outcome.  Identical files give no output and return   *)
(* code 0.  `paired` is the number of line pairs diff found; the program   *)
(* never sees it.                                                          *)
(***************************************************************************)
File(bin, lines) == [bin |-> bin, lines |-> lines]

\* the pairings <<p, q>> of equal lines after left line i and right line j,
\* increasing in both files
RECURSIVE Alignments(_, _, _, _)
Alignments(l, r, i, j) ==
    {<<>>} \cup
    UNION {{<<(<<p, q>>)>> \o rest : rest \in Alignments(l, r, p, q)} :
           <<p, q>> \in {pq \in ((i + 1)..Len(l)) \X ((j + 1)..Len(r)) :
                           l[pq[1]] = r[pq[2]]}}

\* the hunk between two paired lines <<i1, j1>> and <<i2, j2>>: none when no
\* line lies between them, else an append, a delete or a change
Hunk(i1, j1, i2, j2) ==
    LET nl == i2 - i1 - 1
        nr == j2 - j1 - 1
        range == IF nl = 1 THEN IntToStr(i1 + 1)
                 ELSE IntToStr(i1 + 1) \o <<",">> \o IntToStr(i2 - 1)
    IN  IF nl = 0 /\ nr = 0 THEN <<>>
        ELSE IF nl = 0 THEN <<IntToStr(i1) \o <<"a">>>>
        ELSE IF nr = 0 THEN <<range \o <<"d">>>>
        ELSE <<range \o <<"c">>>>

\* the headers of the script of one alignment, last hunk first as ed wants
EdScript(l, r, al) ==
    LET pts == <<(<<0, 0>>)>> \o al \o <<(<<Len(l) + 1, Len(r) + 1>>)>>
        hs  == [k \in 1..(Len(pts) - 1) |->
                  Hunk(pts[k][1], pts[k][2], pts[k + 1][1], pts[k + 1][2])]
    IN  Reverse(Concat(hs))

\* stdout of diff: each header on a line of its own
DiffStdout(headers) ==
    Concat([k \in 1..Len(headers) |-> headers[k] \o <<"\n">>])

\* what the diff process can answer for (left, right): its return code and
\* stdout.  0: no differences; 1: differences; 2: trouble (binary files)
DiffProcess(left, right) ==
    IF left = right
    THEN {[returncode |-> 0, out |-> <<>>, paired |-> Len(left.lines)]}
    ELSE IF left.bin \/ right.bin
    THEN {[returncode |-> 2, out |-> <<>>, paired |-> 0]}
    ELSE {[returncode |-> 1,
           out |-> DiffStdout(EdScript(left.lines, right.lines, al)),
           paired |-> Len(al)] :
          al \in Alignments(left.lines, right.lines, 0, 0)}

(***************************************************************************)
(* The similarity scorer.                                                  *)
(***************************************************************************)
NotRun == [kind |-> "not run"]
Ratio(num, den) == [kind |-> "ratio", num |-> num, den |-> den]
DiffError(returncode) == [kind |-> "DiffError", returncode |-> returncode]
SystemExit == [kind |-> "exit"]
ZeroDivisionError == [kind |-> "ZeroDivisionError"]

\* a <= b and a = b on ratios
RatioLeq(a, b) == a.num * b.den <= b.num * a.den
RatioEq(a, b) == a.num * b.den = b.num * a.den

\* diff_ed_lines: the process's stdout, or DiffError
diff_ed_lines(proc) ==
    IF proc.returncode \in {0, 1} THEN [raised |-> FALSE, out |-> proc.out]
    ELSE [raised |-> TRUE, error |-> DiffError(proc.returncode)]

\* the sum of every ed line's size, appends too
deleted_lines_all_types(ed_lines) ==
    SumSeq([k \in 1..Len(ed_lines) |-> size(ed_lines[k])])

\* the sum over the ed lines whose type is c or d of their size
deleted_lines_of(ed_lines) ==
    SumSeq([k \in 1..Len(ed_lines) |->
              IF ed_lines[k].type \in {"c", "d"} THEN size(ed_lines[k]) ELSE 0])

\* common_lines_ratio(left, right), given what the diff process answered
common_lines_ratio(proc, left, right) ==
    LET d == diff_ed_lines(proc)
    IN  IF d.raised THEN d.error
        ELSE
        LET ed_output_lines == Split(Strip(d.out), "\n")
            parsed == [k \in 1..Len(ed_output_lines) |->
                         parse_diff_ed_line_number_header(ed_output_lines[k])]
        IN  IF \E k \in 1..Len(parsed) : parsed[k].die THEN SystemExit
            ELSE
            LET ed_lines      == [k \in 1..Len(parsed) |-> parsed[k].ed]
                deleted_lines == deleted_lines_of(ed_lines)
                left_lines    == Len(left.lines)
                right_lines   == Len(right.lines)
                common_lines  == left_lines - deleted_lines
            IN  IF left_lines + right_lines = 0 THEN ZeroDivisionError
                ELSE Ratio(2 * common_lines, left_lines + right_lines)

(***************************************************************************)
(* The scorer on one pair of files, in both directions.                    *)
(***************************************************************************)
ScoreFiles ==
    {File(FALSE, ls) : ls \in SeqsUpTo(LineKinds, MaxFileLines)}
    \cup {File(TRUE, <<"x">>)}

RunIdle ==
    /\ cfg = None /\ files = None /\ exit_cause = "none"
    /\ li = 0 /\ ri = 0 /\ matches = <<>>
    /\ yielded = <<>> /\ stdout = <<>> /\ stderr = <<>> /\ copies = <<>>
    /\ mime_cache = <<>> /\ sniff_calls = <<>>

ScoreIdle ==
    /\ fa = None /\ fb = None /\ proc_ab = None /\ proc_ba = None
    /\ res_ab = NotRun /\ res_ba = NotRun

CacheIdle == sniff = <<>> /\ first_val = <<>> /\ returned = <<>>

InitScore ==
    /\ fa \in ScoreFiles
    /\ fb \in ScoreFiles
    /\ proc_ab = None /\ proc_ba = None
    /\ res_ab = NotRun /\ res_ba = NotRun
    /\ pc = "score"
    /\ RunIdle
    /\ CacheIdle

\* common_lines_ratio(a, b)
ScoreAB ==
    /\ pc = "score"
    /\ res_ab = NotRun
    /\ \E proc \in DiffProcess(fa, fb) :
           /\ proc_ab' = <<proc>>
           /\ res_ab' = common_lines_ratio(proc, fa, fb)
    /\ UNCHANGED <<fa, fb, proc_ba, res_ba, runVars, mime_cache, sniff_calls,
                   cacheVars>>

\* common_lines_ratio(b, a)
ScoreBA ==
    /\ pc = "score"
    /\ res_ba = NotRun
    /\ \E proc \in DiffProcess(fb, fa) :
           /\ proc_ba' = <<proc>>
           /\ res_ba' = common_lines_ratio(proc, fb, fa)
    /\ UNCHANGED <<fa, fb, proc_ab, res_ab, runVars, mime_cache, sniff_calls,
                   cacheVars>>

NextScore == ScoreAB \/ ScoreBA

SpecScore == InitScore /\ [][NextScore]_vars

(***************************************************************************)
(* Paths, dicts, sorting, formatting.                                      *)
(***************************************************************************)
Path(abs, parts) == [abs |-> abs, parts |-> parts]

\* os.path.join(a, b): an absolute b throws a away
os_path_join(a, b) ==
    IF b.abs THEN b ELSE Path(a.abs, a.parts \o b.parts)

\* dict[key] = val on a dict kept as <<[key, val]>> in insertion order,
\* the order in which Python's dicts are iterated
DictSet(d, key, val) ==
    IF \E k \in 1..Len(d) : d[k].key = key
    THEN [k \in 1..Len(d) |->
            IF d[k].key = key THEN [key |-> key, val |-> val] ELSE d[k]]
    ELSE Append(d, [key |-> key, val |-> val])

DictKeys(d) == [k \in 1..Len(d) |-> d[k].key]

DictGet(d, key) == (CHOOSE e \in Range(d) : e.key = key).val

DictHas(d, key) == \E e \in Range(d) : e.key = key

\* x put into s, which is sorted by descending val(_), behind every element
\* that is not smaller: equal elements keep their order
RECURSIVE InsertDescending(_, _, _)
InsertDescending(s, x, d) ==
    IF s = <<>> THEN <<x>>
    ELSE IF RatioLeq(DictGet(d, x), DictGet(d, Head(s)))
    THEN <<Head(s)>> \o InsertDescending(Tail(s), x, d)
    ELSE <<x>> \o s

\* sorted without reverse=True: ascending
RECURSIVE SortedAscending(_, _)
SortedAscending(keys, d) ==
    IF keys = <<>> THEN <<>>
    ELSE LET rest == SortedAscending(Tail(keys), d)
             x    == Head(keys)
             n    == Cardinality({k \in 1..Len(rest) :
                        ~RatioLeq(DictGet(d, x), DictGet(d, rest[k]))})
         IN  SubSeq(rest, 1, n) \o <<x>> \o SubSeq(rest, n + 1, Len(rest))

\* sorted(keys, key=d.get, reverse=True): stable, descending
RECURSIVE SortedDescending(_, _)
SortedDescending(keys, d) ==
    IF keys = <<>> THEN <<>>
    ELSE InsertDescending(
             SortedDescending(SubSeq(keys, 1, Len(keys) - 1), d),
             keys[Len(keys)], d)

\* "%.4f" % ratio, as the number of ten-thousandths printed
Format4(ratio) == (2 * 10000 * ratio.num + ratio.den) \div (2 * ratio.den)

(***************************************************************************)
(* The mimetype cache.                                                     *)
(***************************************************************************)
\* CachingDict.get_or_cache(key, val_fn), val being what val_fn() returns if
\* it is called: the dict afterwards, the value returned, whether val_fn ran
get_or_cache(self, key, val) ==
    LET present == key \in DOMAIN self
        cached  == IF present THEN <<self[key]>> ELSE None
    IN  IF cached = None \/ cached[1] = ""
        THEN [self |-> (key :> val) @@ self, val |-> val, called |-> TRUE]
        ELSE [self |-> self, val |-> cached[1], called |-> FALSE]

\* MimetypeCache.mimetype(path), sniffed being the output of `file -ib path`
\* up to its first ";"
mimetype(self, path, sniffed) == get_or_cache(self, path, sniffed)

Count(calls, path) == IF path \in DOMAIN calls THEN calls[path] ELSE 0

Called(calls, path, called) ==
    IF called THEN (path :> (Count(calls, path) + 1)) @@ calls ELSE calls

\* what `file -ib` says of a file
FileMime(f) ==
    IF f.lines = <<>> THEN "inode/x-empty"
    ELSE IF f.bin THEN "application/octet-stream"
    ELSE "text/plain"

\* MimetypeFilter.filter(left_path, right_path): the two lookups in order
MimetypeFilter_filter(cache, calls, left_path, left, right_path, right) ==
    LET m1 == mimetype(cache, left_path, FileMime(left))
        c1 == Called(calls, left_path, m1.called)
        m2 == mimetype(m1.self, right_path, FileMime(right))
        c2 == Called(c1, right_path, m2.called)
    IN  [cache |-> m2.self, calls |-> c2, admits |-> m1.val = m2.val]

(***************************************************************************)
(* One run of main().                                                      *)
(***************************************************************************)
\* the files of the two trees, relative to the tree, in os.walk's order
LeftRels == <<(<<"a.txt">>), (<<"sub", "b.txt">>)>>
RightRels == <<(<<"r1.txt">>), (<<"r2.txt">>), (<<"sub", "r3.txt">>)>>

TreeFiles ==
    {File(FALSE, ls) : ls \in SeqsUpTo(TreeLineKinds, MaxTreeFileLines)}
    \cup {File(TRUE, <<"x">>)}

LeftTrees == {Path(FALSE, <<"known">>), Path(TRUE, <<"known">>)}
RightTrees == {Path(FALSE, <<"rescue">>)}
CopyDests == {None, <<Path(FALSE, <<"out">>)>>}
MinRatios == {Ratio(0, 1), Ratio(1, 2)}

\* args of main(), and whether the diff binary has --ed-line-numbers-only
Configs ==
    [left_tree : LeftTrees, right_tree : RightTrees, min_ratio : MinRatios,
     mimetype_filter : BOOLEAN, copy_dest : CopyDests,
     copy_least_matching : BOOLEAN, diff_has_option : BOOLEAN]

\* build_file_list(dir): the tree's files, each joined to dir
build_file_list(dir, rels) ==
    [k \in 1..Len(rels) |-> os_path_join(dir, Path(FALSE, rels[k]))]

left_paths == build_file_list(cfg.left_tree, LeftRels)
right_paths == build_file_list(cfg.right_tree, RightRels)

\* the selection with > min_ratio instead of >= min_ratio
selected_files_strict(matches_dict, min_ratio) ==
    LET keep(k) == ~RatioLeq(DictGet(matches_dict, k), min_ratio)
    IN  SortedDescending(SelectSeq(DictKeys(matches_dict), keep), matches_dict)

\* the selection of rescue_matcher: the keys whose ratio is >= min_ratio,
\* sorted by ratio, descending
selected_files_of(matches_dict, min_ratio) ==
    LET keep(k) == RatioLeq(min_ratio, DictGet(matches_dict, k))
    IN  SortedDescending(SelectSeq(DictKeys(matches_dict), keep), matches_dict)

\* selected_files[0], whatever copy_least_matching says
best_match_path_first(selected_files, copy_least_matching) == selected_files[1]

\* selected_files[-1 if copy_least_matching else 0]
best_match_path_of(selected_files, copy_least_matching) ==
    selected_files[IF copy_least_matching THEN Len(selected_files) ELSE 1]

\* the lines printed for the selection
printed_lines(selected_files, matches_dict) ==
    [k \in 1..Len(selected_files) |->
       [shown |-> Format4(DictGet(matches_dict, selected_files[k])),
        path  |-> selected_files[k]]]

\* the destination built from the file name of left_path alone
copy_destination_basename(copy_dest, left_path) ==
    os_path_join(copy_dest, Path(FALSE, <<left_path.parts[Len(left_path.parts)]>>))

\* where rescue_matcher copies the match of left_path to
copy_destination(copy_dest, left_path) == os_path_join(copy_dest, left_path)

InitRun ==
    /\ cfg \in Configs
    /\ files = None
    /\ pc = "start"
    /\ exit_cause = "none"
    /\ li = 0 /\ ri = 0 /\ matches = <<>>
    /\ yielded = <<>> /\ stdout = <<>> /\ stderr = <<>> /\ copies = <<>>
    /\ mime_cache = <<>> /\ sniff_calls = <<>>
    /\ ScoreIdle
    /\ CacheIdle

RunDie(msg) ==
    /\ pc' = "exit"
    /\ exit_cause' = "die"
    /\ stderr' = Append(stderr, [msg |-> msg])

\* main() up to the call of rescue_matcher, and the generator's first steps:
\* the two trees are listed
Main ==
    /\ pc = "start"
    /\ IF ~cfg.diff_has_option
       THEN /\ RunDie("diff lacks --ed-line-numbers-only option")
            /\ UNCHANGED <<files, li, ri>>
       ELSE IF cfg.copy_dest = None /\ cfg.copy_least_matching
       THEN /\ RunDie("--copy-dest has to be specified")
            /\ UNCHANGED <<files, li, ri>>
       ELSE /\ files' \in [left : [1..Len(LeftRels) -> TreeFiles],
                           right : [1..Len(RightRels) -> TreeFiles]]
            /\ pc' = IF Len(LeftRels) = 0 THEN "done" ELSE "inner"
            /\ li' = 1
            /\ ri' = 1
            /\ UNCHANGED <<exit_cause, stderr>>
    /\ UNCHANGED <<cfg, matches, yielded, stdout, copies, mime_cache,
                   sniff_calls, scoreVars, cacheVars>>

\* one turn of find_tree_matches' inner loop: the filter, then the ratio
Compare ==
    /\ pc = "inner"
    /\ ri <= Len(RightRels)
    /\ LET left_path  == left_paths[li]
           right_path == right_paths[ri]
           left       == files.left[li]
           right      == files.right[ri]
           flt == IF cfg.mimetype_filter
                  THEN MimetypeFilter_filter(mime_cache, sniff_calls,
                                             left_path, left, right_path, right)
                  ELSE [cache |-> mime_cache, calls |-> sniff_calls,
                        admits |-> TRUE]
       IN  /\ mime_cache' = flt.cache
           /\ sniff_calls' = flt.calls
           /\ IF ~flt.admits
              THEN /\ ri' = ri + 1
                   /\ UNCHANGED <<pc, exit_cause, matches, stderr>>
              ELSE \E proc \in DiffProcess(left, right) :
                     LET ratio == common_lines_ratio(proc, left, right)
                     IN  CASE ratio.kind = "ratio" ->
                                /\ matches' = DictSet(matches, right_path, ratio)
                                /\ ri' = ri + 1
                                /\ UNCHANGED <<pc, exit_cause, stderr>>
                           [] ratio.kind = "DiffError" ->
                                /\ stderr' = Append(stderr,
                                       [msg |-> "Got bad return code from diff",
                                        returncode |-> ratio.returncode,
                                        left_path |-> left_path,
                                        right_path |-> right_path])
                                /\ ri' = ri + 1
                                /\ UNCHANGED <<pc, exit_cause, matches>>
                           [] ratio.kind = "exit" ->
                                /\ RunDie("Tried to parse invalid ed script line number header output")
                                /\ UNCHANGED <<ri, matches>>
                           [] ratio.kind = "ZeroDivisionError" ->
                                /\ pc' = "exit"
                                /\ exit_cause' = "ZeroDivisionError"
                                /\ UNCHANGED <<ri, matches, stderr>>
    /\ UNCHANGED <<cfg, files, li, yielded, stdout, copies, scoreVars, cacheVars>>

\* the generator is resumed: the next left file, or it is exhausted
Resume ==
    /\ pc' = IF li < Len(LeftRels) THEN "inner" ELSE "done"
    /\ li' = li + 1
    /\ ri' = 1
    /\ matches' = <<>>

\* the inner loop is over: the generator yields left_path, matches, and
\* rescue_matcher's loop body runs on them: select, print, copy; then the
\* generator is resumed
Yield ==
    /\ pc = "inner"
    /\ ri > Len(RightRels)
    /\ yielded' = Append(yielded, [left |-> left_paths[li], matches |-> matches])
    /\ LET left_path      == left_paths[li]
           matches_dict   == matches
           selected_files == selected_files_of(matches_dict, cfg.min_ratio)
           block == [left  |-> left_path,
                     lines |-> printed_lines(selected_files, matches_dict)]
       IN  IF selected_files = <<>>
           THEN /\ Resume
                /\ UNCHANGED <<stdout, copies, exit_cause>>
           ELSE /\ stdout' = Append(stdout, block)
                /\ IF cfg.copy_dest = None
                   THEN /\ Resume
                        /\ UNCHANGED <<copies, exit_cause>>
                   ELSE \E ok \in BOOLEAN :
                          LET best_match_path ==
                                  best_match_path_of(selected_files,
                                                     cfg.copy_least_matching)
                              call == [left |-> left_path,
                                       src  |-> best_match_path,
                                       dst  |-> copy_destination(cfg.copy_dest[1],
                                                                 left_path),
                                       ok   |-> ok]
                          IN  /\ copies' = Append(copies, call)
                              /\ IF ok
                                 THEN /\ Resume
                                      /\ UNCHANGED exit_cause
                                 ELSE /\ pc' = "exit"
                                      /\ exit_cause' = "OSError"
                                      /\ UNCHANGED <<li, ri, matches>>
    /\ UNCHANGED <<cfg, files, stderr, mime_cache, sniff_calls, scoreVars,
                   cacheVars>>

NextRun == Main \/ Compare \/ Yield

Spec == InitRun /\ [][NextRun]_vars

(***************************************************************************)
(* The mimetype cache on its own: requests on one MimetypeCache.           *)
(***************************************************************************)
CachePaths == {Path(FALSE, <<"known", "a.txt">>), Path(FALSE, <<"rescue", "r1.txt">>)}

\* what `file -ib path` may print before its first ";"
SniffValues == {"", "text/plain", "application/octet-stream"}

InitCache ==
    /\ sniff \in [CachePaths -> SniffValues]
    /\ first_val = <<>>
    /\ returned = <<>>
    /\ mime_cache = <<>>
    /\ sniff_calls = <<>>
    /\ pc = "cache"
    /\ cfg = None /\ files = None /\ exit_cause = "none"
    /\ li = 0 /\ ri = 0 /\ matches = <<>>
    /\ yielded = <<>> /\ stdout = <<>> /\ stderr = <<>> /\ copies = <<>>
    /\ ScoreIdle

\* one call of mime_cache.mimetype(path)
Request(path) ==
    /\ pc = "cache"
    /\ Len(returned) < MaxRequests
    /\ LET r == mimetype(mime_cache, path, sniff[path])
       IN  /\ mime_cache' = r.self
           /\ sniff_calls' = Called(sniff_calls, path, r.called)
           /\ first_val' = IF r.called /\ path \notin DOMAIN first_val
                           THEN (path :> r.val) @@ first_val
                           ELSE first_val
           /\ returned' = Append(returned, [path |-> path, val |-> r.val])
    /\ UNCHANGED <<sniff, runVars, scoreVars>>

NextCache == \E path \in CachePaths : Request(path)

SpecCache == InitCache /\ [][NextCache]_vars

(***************************************************************************)
(* The three together: a run, the scorer on a pair, or the cache.          *)
(***************************************************************************)
InitAll == InitRun \/ InitScore \/ InitCache

NextAll == NextRun \/ NextScore \/ NextCache

SpecAll == InitAll /\ [][NextAll]_vars

(***************************************************************************)
(* Properties of the scorer.                                               *)
(***************************************************************************)
IsRatio(res) == res.kind = "ratio"

InUnitInterval(ratio) == 0 <= ratio.num /\ ratio.num <= ratio.den /\ ratio.den > 0

\* the length of a longest common subsequence of the lines of l and r
RECURSIVE Lcs(_, _)
Lcs(l, r) ==
    IF l = <<>> \/ r = <<>> THEN 0
    ELSE IF Head(l) = Head(r) THEN 1 + Lcs(Tail(l), Tail(r))
    ELSE LET n1 == Lcs(Tail(l), r)
             n2 == Lcs(l, Tail(r))
         IN  IF n1 >= n2 THEN n1 ELSE n2

\* proc is the answer of a diff that found a minimal script for (left, right):
\* it paired as many lines as can be paired
MinimalAnswer(proc, left, right) ==
    /\ proc.returncode = 1
    /\ proc.paired = Lcs(left.lines, right.lines)

\* C1: every ratio common_lines_ratio returns, and every ratio
\* find_tree_matches stores in a matches dict, lies in [0.0, 1.0], whatever
\* the files (the non-empty ones among them) and whatever script diff chose.
C1_RatioInUnitInterval ==
    /\ IsRatio(res_ab) => InUnitInterval(res_ab)
    /\ IsRatio(res_ba) => InUnitInterval(res_ba)
    /\ \A e \in Range(matches) : IsRatio(e.val) /\ InUnitInterval(e.val)
    /\ \A y \in Range(yielded) :
          \A e \in Range(y.matches) : IsRatio(e.val) /\ InUnitInterval(e.val)

\* C1's case: two non-empty files, a script with a change or a delete and an
\* append, and a ratio strictly between 0 and 1
C1_Witness ==
    /\ pc = "score"
    /\ IsRatio(res_ab)
    /\ fa.lines # <<>> /\ fb.lines # <<>>
    /\ 0 < res_ab.num /\ res_ab.num < res_ab.den
    /\ "a" \in Range(proc_ab[1].out)
    /\ \E c \in {"c", "d"} : c \in Range(proc_ab[1].out)

\* C2: scoring a file against an identical copy of itself completes and
\* returns exactly 1.0, two empty files included.
C2_IdenticalScoresOne ==
    (pc = "score" /\ fa = fb /\ res_ab # NotRun) =>
        (IsRatio(res_ab) /\ res_ab.num = res_ab.den)

Terminal == pc \in {"done", "exit"}

\* the keys of a matches dict whose ratio is >= min_ratio
Qualifying(md, min_ratio) ==
    {e.key : e \in {x \in Range(md) : RatioLeq(min_ratio, x.val)}}

BlocksOf(left) == {k \in 1..Len(stdout) : stdout[k].left = left}

CopiesOf(left) == {k \in 1..Len(copies) : copies[k].left = left}

Position(s, x) == CHOOSE k \in 1..Len(s) : s[k] = x

\* p lies under dir: it is absolute as dir is, and dir's parts lead it
IsUnder(p, dir) ==
    /\ p.abs = dir.abs
    /\ Len(p.parts) > Len(dir.parts)
    /\ SubSeq(p.parts, 1, Len(dir.parts)) = dir.parts

\* C4: for every left file yielded, the right paths printed in its block are
\* exactly the keys of its matches dict whose ratio is >= min_ratio, each
\* once; when none qualifies no block is printed and nothing is copied for it.
C4_SelectionIsThreshold ==
    /\ \A b \in Range(stdout) : \E y \in Range(yielded) : y.left = b.left
    /\ \A y \in Range(yielded) :
          LET sel == Qualifying(y.matches, cfg.min_ratio)
          IN  IF sel = {}
              THEN BlocksOf(y.left) = {} /\ CopiesOf(y.left) = {}
              ELSE /\ Cardinality(BlocksOf(y.left)) = 1
                   /\ \A k \in BlocksOf(y.left) :
                         /\ stdout[k].lines # <<>>
                         /\ {ln.path : ln \in Range(stdout[k].lines)} = sel
                         /\ Len(stdout[k].lines) = Cardinality(sel)

\* C4's case: with a positive min_ratio, one left file has matches on both
\* sides of it, and another has matches of which none qualifies
C4_Witness ==
    /\ pc = "done"
    /\ cfg.min_ratio.num > 0 /\ cfg.copy_dest # None
    /\ \E y1, y2 \in Range(yielded) :
          /\ Qualifying(y1.matches, cfg.min_ratio) # {}
          /\ Qualifying(y1.matches, cfg.min_ratio) # Range(DictKeys(y1.matches))
          /\ y2.matches # <<>>
          /\ Qualifying(y2.matches, cfg.min_ratio) = {}

\* C5: within each printed block the match lines are in non-increasing order
\* of ratio, both of the ratio of the matches dict and of the number printed.
C5_BlocksDescending ==
    \A b \in Range(stdout) :
       \A y \in Range(yielded) :
          y.left = b.left =>
             \A k \in 1..(Len(b.lines) - 1) :
                /\ b.lines[k].shown >= b.lines[k + 1].shown
                /\ RatioLeq(DictGet(y.matches, b.lines[k + 1].path),
                            DictGet(y.matches, b.lines[k].path))

\* C5's case: a block of three lines with different ratios, whose order is
\* not the order in which the matches were found
C5_Witness ==
    \E b \in Range(stdout) :
       \E y \in Range(yielded) :
          /\ y.left = b.left
          /\ Len(b.lines) = 3
          /\ b.lines[1].shown > b.lines[3].shown
          /\ [k \in 1..3 |-> b.lines[k].path] # DictKeys(y.matches)

LeftIndex(left_path) == Position(left_paths, left_path)

DiffFailures == {e \in Range(stderr) : e.msg = "Got bad return code from diff"}

\* the filter chain admits the pair of left file i and right file j
Admitted(i, j) ==
    cfg.mimetype_filter => FileMime(files.left[i]) = FileMime(files.right[j])

\* the comparison of left file i and right file j returns a ratio
Succeeds(i, j) ==
    \A proc \in DiffProcess(files.left[i], files.right[j]) :
       IsRatio(common_lines_ratio(proc, files.left[i], files.right[j]))

\* C8: when diff fails on the pair (l, r), r is not in l's matches, every
\* other admitted right file whose comparison succeeds is, l is still
\* yielded, and so is every later left file: once the run has ended, all of
\* that has happened.
C8_DiffFailureIsolated ==
    \A e \in DiffFailures :
       /\ (pc = "inner" /\ left_paths[li] = e.left_path) =>
             ~DictHas(matches, e.right_path)
       /\ Terminal =>
             \A i \in LeftIndex(e.left_path)..Len(LeftRels) :
                \E y \in Range(yielded) :
                   /\ y.left = left_paths[i]
                   /\ i = LeftIndex(e.left_path) =>
                         /\ ~DictHas(y.matches, e.right_path)
                         /\ \A j \in 1..Len(RightRels) :
                               (Admitted(i, j) /\ Succeeds(i, j)) =>
                                  DictHas(y.matches, right_paths[j])

\* The handling of DiffError on its own: on the runs that reach their end
\* without exit, what C8 states has happened.
DiffFailureIsolatedWhenDone == pc = "done" => C8_DiffFailureIsolated

\* C10: when a copy fails the run does not stop: once it has ended, every
\* left file has been matched and yielded.
C10_CopyFailureIsolated ==
    (Terminal /\ \E c \in Range(copies) : ~c.ok) =>
        Len(yielded) = Len(LeftRels)

(***************************************************************************)
(* Properties of the mimetype cache.                                       *)
(***************************************************************************)
\* C9: `file -ib` has run at most once per path, whatever it printed, and
\* every request of a path returned what the path's first call printed.
C9_OneSniffPerPath ==
    /\ \A p \in DOMAIN sniff_calls : sniff_calls[p] <= 1
    /\ \A q \in Range(returned) : q.val = first_val[q.path]

====
